---- MODULE Spec2Model ----
(***************************************************************************)
(* Model of crypto_trading_bot.py: the trading loop of main(), the price   *)
(* source get_current_price(), the advisor call_llm(), the ledger          *)
(* execute_trade() and the reporter log_status().                          *)
(*                                                                         *)
(* Numbers: the program computes in Python floats.  The model computes in  *)
(* exact rationals <<n, d>> in lowest terms with d > 0, so the arithmetic  *)
(* identities are those of the reals; float rounding is not modelled.      *)
(* None is the empty tuple.  JSON values are records [type, val].          *)
(***************************************************************************)
EXTENDS Integers, Sequences, FiniteSets, TLC

\* Number of loop iterations explored (the loop itself is `while True`).
MaxCycles == 3

VARIABLES
    pc,                     \* position of main(): the next step of the loop
    cycle,                  \* completed iterations of the while loop
    FEE_PERCENTAGE,         \* module global, line 28
    EUR_BALANCE,            \* module global, line 24
    BTC_BALANCE,            \* module global, line 25
    price_history,          \* module global, line 31
    global_last_buy_price,  \* module global written by execute_trade, line 119
    last_buy_price,         \* local of main(), line 139
    current_price,          \* local of main(), line 143
    decision,               \* local of main(), line 147
    reasoning,              \* local of main(), line 147
    trade_details,          \* local of main(), line 150
    feed,                   \* what the price feed did in this cycle
    oracle,                 \* what the oracle did in this cycle
    prompt,                 \* the values call_llm put in the user prompt
    report,                 \* the last block printed by log_status
    n_reports,              \* number of blocks printed by log_status
    error                   \* the exception that left main(), if any

vars == <<pc, cycle, FEE_PERCENTAGE, EUR_BALANCE, BTC_BALANCE, price_history,
          global_last_buy_price, last_buy_price, current_price, decision,
          reasoning, trade_details, feed, oracle, prompt, report, n_reports,
          error>>

----------------------------------------------------------------------------
\* Arithmetic on rationals <<n, d>>.

None == <<>>

Abs(x) == IF x < 0 THEN -x ELSE x

RECURSIVE GCD(_, _)
GCD(a, b) == IF b = 0 THEN a ELSE GCD(b, a % b)

Norm(n, d) ==
    LET g == GCD(Abs(n), Abs(d))
        s == IF d < 0 THEN -1 ELSE 1
    IN  <<(s * n) \div g, (s * d) \div g>>

R(n, d) == Norm(n, d)

Zero == R(0, 1)
One == R(1, 1)

RMul(a, b) ==
    LET g1 == GCD(Abs(a[1]), b[2])
        g2 == GCD(Abs(b[1]), a[2])
    IN  Norm((a[1] \div g1) * (b[1] \div g2), (a[2] \div g2) * (b[2] \div g1))

\* b # Zero; the callers raise ZeroDivisionError before dividing by zero.
RDiv(a, b) == RMul(a, Norm(b[2], b[1]))

RAdd(a, b) ==
    LET g == GCD(a[2], b[2])
    IN  Norm(a[1] * (b[2] \div g) + b[1] * (a[2] \div g), (a[2] \div g) * b[2])

RSub(a, b) == RAdd(a, <<-b[1], b[2]>>)

RGt(a, b) == a[1] * b[2] > b[1] * a[2]

RGe(a, b) == a[1] * b[2] >= b[1] * a[2]

\* Nearest integer to n / d (d > 0), ties to even: the rounding of "%.Nf".
RoundDiv(n, d) ==
    LET q == n \div d
        r == n % d
    IN  IF 2 * r < d THEN q
        ELSE IF 2 * r > d THEN q + 1
        ELSE IF q % 2 = 0 THEN q ELSE q + 1

\* f"{x:.2f}" and f"{x:.6f}": the number of 1/100 resp. 1/1000000 shown.
Fmt2(x) == LET y == RMul(x, R(100, 1)) IN RoundDiv(y[1], y[2])

Fmt6(x) == LET y == RMul(x, R(1000000, 1)) IN RoundDiv(y[1], y[2])

----------------------------------------------------------------------------
\* JSON values, decisions and reasonings.

JStr(s) == [type |-> "string", val |-> s]

JList(s) == [type |-> "list", val |-> s]

Absent == [type |-> "absent", val |-> ""]

Unset == [type |-> "unset", val |-> ""]

Buy == JStr("Buy")
Sell == JStr("Sell")
Hold == JStr("Hold")

LLM_ERROR == JStr("LLM error - holding by default")
INVALID_FORMAT == JStr("Invalid LLM response format")
NO_TRADE == <<"No trade executed">>

\* Values hash() rejects: lists and dicts.
Unhashable(v) == v.type \in {"list", "object"}

----------------------------------------------------------------------------
\* execute_trade, lines 109-131.

buy_condition_ge(price, eur_balance, dec) ==
    /\ dec = Buy
    /\ RGe(eur_balance, RMul(price, RAdd(One, FEE_PERCENTAGE)))

buy_condition(price, eur_balance, dec) ==
    /\ dec = Buy
    /\ RGt(eur_balance, RMul(price, RAdd(One, FEE_PERCENTAGE)))

sell_condition_any(btc_balance, dec) == dec = Sell

sell_condition(btc_balance, dec) ==
    /\ dec = Sell
    /\ RGt(btc_balance, Zero)

eur_to_spend_gross(eur_balance) == eur_balance

eur_to_spend_plus_fee(eur_balance) ==
    RMul(eur_balance, RAdd(One, FEE_PERCENTAGE))

eur_to_spend(eur_balance) == RMul(eur_balance, RSub(One, FEE_PERCENTAGE))

btc_bought(price, eur_balance) ==
    RDiv(eur_to_spend(eur_balance), price)

eur_received_gross(price, btc_balance) ==
    RMul(btc_balance, price)

eur_received_negated(price, btc_balance) ==
    RMul(RMul(btc_balance, price), RSub(FEE_PERCENTAGE, One))

eur_received(price, btc_balance) ==
    RMul(RMul(btc_balance, price), RSub(One, FEE_PERCENTAGE))

\* The result of a call: the returned triple, the value the call leaves in
\* the module global last_buy_price, and the exception raised, if any.
execute_trade(price, eur_balance, btc_balance, dec) ==
    IF buy_condition(price, eur_balance, dec)
    THEN IF price = Zero
         THEN [eur |-> eur_balance, btc |-> btc_balance, summary |-> None,
               last_buy_price |-> global_last_buy_price,
               raised |-> "ZeroDivisionError"]
         ELSE [eur |-> Zero,
               btc |-> RAdd(btc_balance, btc_bought(price, eur_balance)),
               summary |-> <<"Bought", Fmt6(btc_bought(price, eur_balance)),
                             Fmt2(price)>>,
               last_buy_price |-> price,
               raised |-> "none"]
    ELSE IF sell_condition(btc_balance, dec)
    THEN [eur |-> RAdd(eur_balance, eur_received(price, btc_balance)),
          btc |-> Zero,
          summary |-> <<"Sold", Fmt6(btc_balance), Fmt2(price)>>,
          last_buy_price |-> global_last_buy_price,
          raised |-> "none"]
    ELSE [eur |-> eur_balance, btc |-> btc_balance, summary |-> NO_TRADE,
          last_buy_price |-> global_last_buy_price,
          raised |-> "none"]

----------------------------------------------------------------------------
\* get_current_price, lines 43-53.

\* What requests.get, raise_for_status, response.json and float() can do.
FeedPrices == {R(1000, 1), R(2000, 1)}

FeedFailures == {"network_error", "http_error", "malformed_payload",
                 "missing_field", "not_a_number"}

FeedResponses ==
    {[kind |-> "ok", sell |-> p] : p \in FeedPrices}
        \cup {[kind |-> k, sell |-> None] : k \in FeedFailures}

NoFeed == [kind |-> "none", sell |-> None]

FeedFailed == feed.kind \in FeedFailures

last_known_price_zero == Zero

\* Line 53: price_history[-1] if price_history else 0.
last_known_price ==
    IF price_history # <<>> THEN price_history[Len(price_history)] ELSE Zero

get_current_price(response) ==
    IF response.kind = "ok" THEN response.sell ELSE last_known_price

----------------------------------------------------------------------------
\* call_llm, lines 55-90.

\* What Cerebras(...), client.chat.completions.create and the message
\* content can be.  json is "invalid" (not JSON), "null" (content is None),
\* "array" (valid JSON that is not an object) or "object".
OracleFailures == {"client_error", "transport_error"}

DecisionValues == {Buy, Sell, Hold, JStr("buy"), JList("Buy")}

ReasoningValues == {JStr("trend")}

OracleResponses ==
    {[call |-> k, json |-> "none", decision |-> Absent, reasoning |-> Absent] :
        k \in OracleFailures}
    \cup {[call |-> "ok", json |-> j, decision |-> Absent,
           reasoning |-> Absent] : j \in {"invalid", "null", "array"}}
    \cup {[call |-> "ok", json |-> "object", decision |-> d, reasoning |-> r] :
            d \in DecisionValues \cup {Absent},
            r \in ReasoningValues \cup {Absent}}

NoOracle == [call |-> "none", json |-> "none", decision |-> Absent,
             reasoning |-> Absent]

NoPrompt == [sent |-> FALSE, prices |-> <<>>, eur |-> None, btc |-> None,
             last_buy_price |-> None, volume |-> None]

\* Lines 60-65: the values embedded in the user prompt.
user_prompt(price, eur_balance, btc_balance, lbp) ==
    [sent |-> TRUE, prices |-> price_history, eur |-> eur_balance,
     btc |-> btc_balance,
     last_buy_price |-> IF lbp = None \/ lbp = Zero THEN Zero ELSE lbp,
     volume |-> price]

call_llm_lenient(response) ==
    IF response.call # "ok" THEN <<Hold, LLM_ERROR>>
    ELSE IF response.json = "invalid" THEN <<Hold, INVALID_FORMAT>>
    ELSE IF response.json \in {"null", "array"} THEN <<Hold, LLM_ERROR>>
    ELSE IF response.decision = Absent \/ response.reasoning = Absent
         THEN <<Hold, LLM_ERROR>>
    ELSE IF response.decision = JStr("buy")
         THEN <<Buy, response.reasoning>>
    ELSE <<response.decision, response.reasoning>>

\* Lines 81-90: the pair call_llm returns.
call_llm(response) ==
    IF response.call # "ok" THEN <<Hold, LLM_ERROR>>
    ELSE IF response.json = "invalid" THEN <<Hold, INVALID_FORMAT>>
    ELSE IF response.json \in {"null", "array"} THEN <<Hold, LLM_ERROR>>
    ELSE IF response.decision = Absent \/ response.reasoning = Absent
         THEN <<Hold, LLM_ERROR>>
    ELSE <<response.decision, response.reasoning>>

----------------------------------------------------------------------------
\* log_status, lines 92-107.

NoReport == [price |-> 0, eur |-> 0, btc |-> 0, decision |-> Unset,
             reasoning |-> Unset, history_length |-> 0]

\* The printed block, or the TypeError of the colour lookup at lines 94-98.
log_status(price, eur_balance, btc_balance, dec, reas) ==
    IF Unhashable(dec)
    THEN [raised |-> "TypeError", block |-> NoReport]
    ELSE [raised |-> "none",
          block |-> [price |-> Fmt2(price), eur |-> Fmt2(eur_balance),
                     btc |-> Fmt6(btc_balance), decision |-> dec,
                     reasoning |-> reas,
                     history_length |-> Len(price_history)]]

----------------------------------------------------------------------------
\* main, lines 133-156.

Init ==
    /\ pc = "Fetch"
    /\ cycle = 0
    /\ FEE_PERCENTAGE = R(2, 100)
    /\ EUR_BALANCE = R(1200, 1)
    /\ BTC_BALANCE = R(3, 10)
    /\ price_history = <<>>
    /\ global_last_buy_price = None
    /\ last_buy_price = None
    /\ current_price = None
    /\ decision = Unset
    /\ reasoning = Unset
    /\ trade_details = None
    /\ feed = NoFeed
    /\ oracle = NoOracle
    /\ prompt = NoPrompt
    /\ report = NoReport
    /\ n_reports = 0
    /\ error = "none"

\* Line 143.
Fetch ==
    /\ pc = "Fetch"
    /\ cycle < MaxCycles
    /\ \E response \in FeedResponses :
        /\ feed' = response
        /\ current_price' = get_current_price(response)
    /\ pc' = "Append"
    /\ UNCHANGED <<cycle, FEE_PERCENTAGE, EUR_BALANCE, BTC_BALANCE,
                   price_history, global_last_buy_price, last_buy_price,
                   decision, reasoning, trade_details, oracle, prompt,
                   report, n_reports, error>>

history_append_window(history, price) ==
    IF Len(history) >= 1 THEN <<history[Len(history)], price>>
    ELSE <<price>>

history_append(history, price) == Append(history, price)

\* Line 144.
AppendHistory ==
    /\ pc = "Append"
    /\ price_history' = history_append(price_history, current_price)
    /\ pc' = "Advise"
    /\ UNCHANGED <<cycle, FEE_PERCENTAGE, EUR_BALANCE, BTC_BALANCE,
                   global_last_buy_price, last_buy_price, current_price,
                   decision, reasoning, trade_details, feed, oracle, prompt,
                   report, n_reports, error>>

Advise_trimming ==
    /\ pc = "Advise"
    /\ \E response \in OracleResponses :
        /\ oracle' = response
        /\ prompt' = IF response.call = "client_error" THEN NoPrompt
                     ELSE user_prompt(current_price, EUR_BALANCE, BTC_BALANCE,
                                      last_buy_price)
        /\ decision' = call_llm(response)[1]
        /\ reasoning' = call_llm(response)[2]
    /\ price_history' = <<price_history[Len(price_history)]>>
    /\ pc' = "Apply"
    /\ UNCHANGED <<cycle, FEE_PERCENTAGE, EUR_BALANCE, BTC_BALANCE,
                   global_last_buy_price, last_buy_price,
                   current_price, trade_details, feed, report, n_reports,
                   error>>

\* Line 147.
Advise ==
    /\ pc = "Advise"
    /\ \E response \in OracleResponses :
        /\ oracle' = response
        /\ prompt' = IF response.call = "client_error" THEN NoPrompt
                     ELSE user_prompt(current_price, EUR_BALANCE, BTC_BALANCE,
                                      last_buy_price)
        /\ decision' = call_llm(response)[1]
        /\ reasoning' = call_llm(response)[2]
    /\ pc' = "Apply"
    /\ UNCHANGED <<cycle, FEE_PERCENTAGE, EUR_BALANCE, BTC_BALANCE,
                   price_history, global_last_buy_price, last_buy_price,
                   current_price, trade_details, feed, report, n_reports,
                   error>>

\* Line 150.  An exception raised by execute_trade leaves main().
Apply ==
    /\ pc = "Apply"
    /\ LET r == execute_trade(current_price, EUR_BALANCE, BTC_BALANCE,
                              decision)
       IN  IF r.raised # "none"
           THEN /\ pc' = "Crashed"
                /\ error' = r.raised
                /\ UNCHANGED <<EUR_BALANCE, BTC_BALANCE, trade_details,
                               global_last_buy_price>>
           ELSE /\ pc' = "Report"
                /\ EUR_BALANCE' = r.eur
                /\ BTC_BALANCE' = r.btc
                /\ trade_details' = r.summary
                /\ global_last_buy_price' = r.last_buy_price
                /\ UNCHANGED error
    /\ UNCHANGED <<cycle, FEE_PERCENTAGE, price_history, last_buy_price,
                   current_price, decision, reasoning, feed, oracle, prompt,
                   report, n_reports>>

\* Line 153.  An exception raised by log_status leaves main().
Report ==
    /\ pc = "Report"
    /\ LET r == log_status(current_price, EUR_BALANCE, BTC_BALANCE, decision,
                           reasoning)
       IN  IF r.raised # "none"
           THEN /\ pc' = "Crashed"
                /\ error' = r.raised
                /\ UNCHANGED <<report, n_reports>>
           ELSE /\ pc' = "Sleep"
                /\ report' = r.block
                /\ n_reports' = n_reports + 1
                /\ UNCHANGED error
    /\ UNCHANGED <<cycle, FEE_PERCENTAGE, EUR_BALANCE, BTC_BALANCE,
                   price_history, global_last_buy_price, last_buy_price,
                   current_price, decision, reasoning, trade_details, feed,
                   oracle, prompt>>

\* Line 156, and the return to the head of the while loop.
Sleep ==
    /\ pc = "Sleep"
    /\ pc' = "Fetch"
    /\ cycle' = cycle + 1
    /\ feed' = NoFeed
    /\ oracle' = NoOracle
    /\ prompt' = NoPrompt
    /\ UNCHANGED <<FEE_PERCENTAGE, EUR_BALANCE, BTC_BALANCE, price_history,
                   global_last_buy_price, last_buy_price, current_price,
                   decision, reasoning, trade_details, report, n_reports,
                   error>>

Next == Fetch \/ AppendHistory \/ Advise \/ Apply \/ Report \/ Sleep

Spec == Init /\ [][Next]_vars

----------------------------------------------------------------------------
\* execute_trade on its own: one call on each combination of arguments.

TradePrices == {R(-1000, 1), Zero, R(1000, 1), R(50000, 1)}

TradeQuotes == {Zero, R(1020, 1), R(1200, 1), R(51000, 1)}

TradeBases == {Zero, R(3, 10), One}

FeeRates == {Zero, R(2, 100), R(1, 2)}

TradeDecisions == {Buy, Sell, Hold, JStr("buy")}

InitTrade ==
    /\ pc = "Apply"
    /\ cycle = 0
    /\ FEE_PERCENTAGE \in FeeRates
    /\ EUR_BALANCE \in TradeQuotes
    /\ BTC_BALANCE \in TradeBases
    /\ current_price \in TradePrices
    /\ decision \in TradeDecisions
    /\ price_history = <<current_price>>
    /\ global_last_buy_price = None
    /\ last_buy_price = None
    /\ reasoning = JStr("trend")
    /\ trade_details = None
    /\ feed = NoFeed
    /\ oracle = NoOracle
    /\ prompt = NoPrompt
    /\ report = NoReport
    /\ n_reports = 0
    /\ error = "none"

NextTrade == Apply

SpecTrade == InitTrade /\ [][NextTrade]_vars

----------------------------------------------------------------------------
\* Properties of execute_trade (checked under SpecTrade).

\* C1: a Buy at a price > 0 with non-negative balances and
\* quoteBalance > price * (1 + feeRate) returns newQuoteBalance = 0 and
\* newBaseBalance = baseBalance + quoteBalance * (1 - feeRate) / price;
\* quote 1200, base 0.3, fee 0.02, price 1000 gives base 1.476.
C1_BuyPostcondition ==
    [][(/\ pc = "Apply"
        /\ decision = Buy
        /\ RGt(current_price, Zero)
        /\ RGe(EUR_BALANCE, Zero)
        /\ RGe(BTC_BALANCE, Zero)
        /\ RGt(EUR_BALANCE, RMul(current_price, RAdd(One, FEE_PERCENTAGE))))
       => /\ pc' = "Report"
          /\ EUR_BALANCE' = Zero
          /\ BTC_BALANCE' =
                RAdd(BTC_BALANCE,
                     RDiv(RMul(EUR_BALANCE, RSub(One, FEE_PERCENTAGE)),
                          current_price))
          /\ (/\ EUR_BALANCE = R(1200, 1)
              /\ BTC_BALANCE = R(3, 10)
              /\ FEE_PERCENTAGE = R(2, 100)
              /\ current_price = R(1000, 1))
             => BTC_BALANCE' = R(1476, 1000)]_vars

C1_Witness ==
    /\ pc = "Report"
    /\ decision = Buy
    /\ trade_details = <<"Bought", 1176000, 100000>>
    /\ FEE_PERCENTAGE = R(2, 100)
    /\ current_price = R(1000, 1)
    /\ EUR_BALANCE = Zero
    /\ BTC_BALANCE = R(1476, 1000)

\* C2: a Sell with baseBalance > 0, at any price, quote balance and fee
\* rate, returns newBaseBalance = 0 and newQuoteBalance = quoteBalance +
\* baseBalance * price * (1 - feeRate); base 0.3, price 50000, fee 0.02
\* adds 14700 to the quote balance.
C2_SellPostcondition ==
    [][(/\ pc = "Apply"
        /\ decision = Sell
        /\ RGt(BTC_BALANCE, Zero))
       => /\ pc' = "Report"
          /\ BTC_BALANCE' = Zero
          /\ EUR_BALANCE' =
                RAdd(EUR_BALANCE,
                     RMul(BTC_BALANCE,
                          RMul(current_price, RSub(One, FEE_PERCENTAGE))))
          /\ (/\ BTC_BALANCE = R(3, 10)
              /\ FEE_PERCENTAGE = R(2, 100)
              /\ current_price = R(50000, 1))
             => EUR_BALANCE' = RAdd(EUR_BALANCE, R(14700, 1))]_vars

C2_Witness ==
    /\ pc = "Report"
    /\ decision = Sell
    /\ trade_details = <<"Sold", 300000, 5000000>>
    /\ FEE_PERCENTAGE = R(2, 100)
    /\ current_price = R(50000, 1)
    /\ BTC_BALANCE = Zero
    /\ EUR_BALANCE = R(1200 + 14700, 1)

\* C3: execute_trade returns both balances unchanged and the summary
\* "No trade executed" when the decision is Hold, or Buy with
\* quoteBalance <= price * (1 + feeRate), or Sell with baseBalance = 0.
C3_NoOpFrame ==
    [][(/\ pc = "Apply"
        /\ \/ decision = Hold
           \/ /\ decision = Buy
              /\ RGe(RMul(current_price, RAdd(One, FEE_PERCENTAGE)),
                     EUR_BALANCE)
           \/ /\ decision = Sell
              /\ BTC_BALANCE = Zero)
       => /\ pc' = "Report"
          /\ EUR_BALANCE' = EUR_BALANCE
          /\ BTC_BALANCE' = BTC_BALANCE
          /\ trade_details' = NO_TRADE]_vars

C3_Witness ==
    /\ pc = "Report"
    /\ decision = Buy
    /\ trade_details = NO_TRADE
    /\ FEE_PERCENTAGE = R(2, 100)
    /\ current_price = R(50000, 1)
    /\ EUR_BALANCE = R(1200, 1)
    /\ BTC_BALANCE = R(3, 10)

----------------------------------------------------------------------------
\* Properties of the loop (checked under Spec).

\* C4: the decision call_llm returns, which the loop passes to
\* execute_trade and log_status, is always one of Buy, Sell, Hold.
C4_DecisionEnumerated ==
    decision # Unset => decision \in {Buy, Sell, Hold}

\* C5: no error terminates the trading loop; main() has no reachable
\* crashed state.
C5_LoopNeverCrashes == pc # "Crashed"

\* C6: when the price is 0, execute_trade completes and returns balances
\* and a summary for every decision and all non-negative balances.
C6_ZeroPriceTradeCompletes ==
    [][(pc = "Apply" /\ current_price = Zero)
       => (pc' = "Report" /\ error' = "none")]_vars

\* C7: when the feed request fails in any way, get_current_price raises
\* nothing and returns the last element of the price history if it is
\* non-empty and 0 otherwise; it leaves the price history unchanged.
C7_FeedFailureFallback ==
    [][pc = "Fetch"
       => /\ pc' = "Append"
          /\ error' = "none"
          /\ price_history' = price_history
          /\ feed'.kind \in FeedFailures
             => current_price' =
                    IF price_history = <<>> THEN Zero
                    ELSE price_history[Len(price_history)]]_vars

C7_Witness ==
    /\ pc = "Append"
    /\ feed.kind = "missing_field"
    /\ price_history = <<R(1000, 1), R(2000, 1)>>
    /\ current_price = R(2000, 1)

IsPrefix(s, t) == Len(s) <= Len(t) /\ SubSeq(t, 1, Len(s)) = s

\* C8: the price history is append-only: every cycle, also one whose
\* price is a fallback, lengthens it by exactly 1 (so its length is the
\* number of cycles that reached the append), the appended element is the
\* cycle's price, and the earlier history stays a prefix.
C8_HistoryAppendOnly ==
    [][/\ IsPrefix(price_history, price_history')
       /\ Len(price_history') =
              cycle' + (IF pc' \in {"Fetch", "Append"} THEN 0 ELSE 1)
       /\ pc' = "Advise"
          => price_history'[Len(price_history')] = current_price']_vars

C8_Witness ==
    /\ pc = "Sleep"
    /\ cycle = 1
    /\ FeedFailed
    /\ price_history = <<R(1000, 1), R(1000, 1)>>

\* C9: a failed oracle call returns Hold with the oracle-error reasoning;
\* a call that succeeds with a payload that is not parseable JSON or lacks
\* the decision or the reasoning field returns Hold with the
\* invalid-response-format reasoning.
C9_FailureClassesDistinguished ==
    /\ oracle.call \in OracleFailures
       => (decision = Hold /\ reasoning = LLM_ERROR)
    /\ (/\ oracle.call = "ok"
        /\ \/ oracle.json = "invalid"
           \/ /\ oracle.json = "object"
              /\ (oracle.decision = Absent \/ oracle.reasoning = Absent))
       => (decision = Hold /\ reasoning = INVALID_FORMAT)

\* C10: the last buy price given to the Advisor is absent (sent as 0)
\* before any Buy has executed and is afterwards the price of the most
\* recent executed Buy.
C10_PromptCarriesLastBuyPrice ==
    (pc = "Apply" /\ prompt.sent)
       => prompt.last_buy_price =
              IF global_last_buy_price = None THEN Zero
              ELSE global_last_buy_price

\* The oracle call failed, or its payload is not a JSON object with a
\* decision in {Buy, Sell, Hold} and a reasoning.
OracleFailedOrInvalid ==
    \/ oracle.call \in OracleFailures
    \/ /\ oracle.call = "ok"
       /\ \/ oracle.json \in {"invalid", "null", "array"}
          \/ oracle.decision \notin {Buy, Sell, Hold}
          \/ oracle.reasoning = Absent

\* C11 as claimed: in a cycle in which the price fetch fails, the oracle
\* call fails or the oracle payload is invalid, no step changes a balance.
C11_NoTradeOnAnyFailure ==
    [][(FeedFailed \/ OracleFailedOrInvalid)
       => (EUR_BALANCE' = EUR_BALANCE /\ BTC_BALANCE' = BTC_BALANCE)]_vars

\* C11 as amended: in a cycle in which the oracle call fails or the oracle
\* payload is invalid, no step from the Advise step on changes a balance.
C11_NoTradeOnOracleFailure ==
    [][(OracleFailedOrInvalid \/ OracleFailedOrInvalid')
       => (EUR_BALANCE' = EUR_BALANCE /\ BTC_BALANCE' = BTC_BALANCE)]_vars

C11_Witness ==
    /\ pc = "Sleep"
    /\ oracle.call = "ok"
    /\ oracle.decision = JStr("buy")
    /\ decision = JStr("buy")
    /\ trade_details = NO_TRADE
    /\ current_price = R(1000, 1)
    /\ EUR_BALANCE = R(1200, 1)
    /\ BTC_BALANCE = R(3, 10)

\* C12: in every reachable state of the loop, with the non-negative prices
\* of the feed and any decisions, both balances are non-negative.
C12_BalancesNonNegative ==
    /\ RGe(EUR_BALANCE, Zero)
    /\ RGe(BTC_BALANCE, Zero)

C12_Witness ==
    /\ pc = "Sleep"
    /\ cycle = 1
    /\ trade_details = <<"Sold", 1476000, 200000>>
    /\ BTC_BALANCE = Zero
    /\ EUR_BALANCE = R(72324, 25)

\* C13: every cycle emits exactly one report, after the Apply step, and
\* the report carries the cycle's price, the balances after the
\* transition, the decision, the reasoning, the trade summary returned by
\* execute_trade in that cycle, and the history length.
C13_ReportCarriesCycle ==
    /\ pc \in {"Fetch", "Append", "Advise", "Apply", "Report"}
       => n_reports = cycle
    /\ pc = "Sleep"
       => /\ n_reports = cycle + 1
          /\ report.price = Fmt2(current_price)
          /\ report.eur = Fmt2(EUR_BALANCE)
          /\ report.btc = Fmt6(BTC_BALANCE)
          /\ report.decision = decision
          /\ report.reasoning = reasoning
          /\ report.history_length = Len(price_history)
          /\ "trade_details" \in DOMAIN report
          /\ report.trade_details = trade_details

\* C14: each cycle runs Fetch, Append, Advise, Apply, Report, Sleep in that
\* order, each exactly once, also after a fallback; the price Apply uses
\* and Report shows is the price Fetch returned and the last element of
\* the history the Advisor saw; the next Fetch follows the Sleep.
C14_StagesInOrder ==
    [][/\ pc = "Fetch" => pc' = "Append"
       /\ pc = "Append" => (pc' = "Advise" /\ current_price' = current_price)
       /\ pc = "Advise"
          => /\ pc' = "Apply"
             /\ current_price' = current_price
             /\ price_history[Len(price_history)] = current_price
             /\ prompt'.sent => prompt'.prices = price_history
       /\ pc = "Apply" => (pc' = "Report" /\ current_price' = current_price)
       /\ pc = "Report"
          => (pc' = "Sleep" /\ report'.price = Fmt2(current_price))
       /\ pc = "Sleep" => (pc' = "Fetch" /\ cycle' = cycle + 1)]_vars

\* C15: only the Apply step changes a balance, and the Advise, Apply and
\* Report steps leave the price history unchanged.
C15_Frames ==
    [][/\ pc # "Apply"
          => (EUR_BALANCE' = EUR_BALANCE /\ BTC_BALANCE' = BTC_BALANCE)
       /\ pc \in {"Advise", "Apply", "Report"}
          => price_history' = price_history]_vars

C15_Witness ==
    /\ pc = "Sleep"
    /\ cycle = 1
    /\ trade_details = <<"Bought", 1176000, 100000>>
    /\ EUR_BALANCE = Zero
    /\ BTC_BALANCE = R(1476, 1000)
    /\ price_history = <<R(2000, 1), R(1000, 1)>>

\* The portfolio value quoteBalance + baseBalance * price.
PortfolioValue(eur_balance, btc_balance, price) ==
    RAdd(eur_balance, RMul(btc_balance, price))

\* The Apply step returned with the summary of an executed Buy or Sell.
Executed(kind) ==
    /\ pc = "Report"
    /\ Len(trade_details) = 3
    /\ trade_details[1] = kind

\* C16: measured at the trade price, an executed Buy lowers the portfolio
\* value by exactly feeRate * quoteBalance, an executed Sell by exactly
\* feeRate * baseBalance * price, and a no-op leaves it unchanged; at a
\* non-negative price the value never increases.
C16_ValueFallsByFee ==
    [][(pc = "Apply" /\ pc' = "Report")
       => LET before == PortfolioValue(EUR_BALANCE, BTC_BALANCE,
                                       current_price)
              after == PortfolioValue(EUR_BALANCE', BTC_BALANCE',
                                      current_price)
          IN  /\ Executed("Bought")'
                 => after = RSub(before,
                                 RMul(FEE_PERCENTAGE, EUR_BALANCE))
              /\ Executed("Sold")'
                 => after = RSub(before,
                                 RMul(FEE_PERCENTAGE,
                                      RMul(BTC_BALANCE, current_price)))
              /\ trade_details' = NO_TRADE => after = before
              /\ (RGe(current_price, Zero) /\ RGe(EUR_BALANCE, Zero)
                  /\ RGe(BTC_BALANCE, Zero))
                 => RGe(before, after)]_vars

C16_Witness ==
    /\ Executed("Bought")
    /\ FEE_PERCENTAGE = R(2, 100)
    /\ current_price = R(1000, 1)
    /\ EUR_BALANCE = Zero
    /\ BTC_BALANCE = R(2176, 1000)

\* C17: executed trades alternate.  An executed Buy needs a positive quote
\* balance and leaves it 0, an executed Sell needs a positive base balance
\* and leaves it 0; with a zero quote balance every Buy decision is a
\* no-op and with a zero base balance every Sell decision is a no-op; and
\* a zero quote balance stays 0 until a Sell executes, a zero base balance
\* until a Buy executes.
C17_TradesAlternate ==
    [][/\ pc = "Apply"
          => /\ Executed("Bought")'
                => (RGt(EUR_BALANCE, Zero) /\ EUR_BALANCE' = Zero)
             /\ Executed("Sold")'
                => (RGt(BTC_BALANCE, Zero) /\ BTC_BALANCE' = Zero)
             /\ (decision = Buy /\ EUR_BALANCE = Zero)
                => (pc' = "Report" /\ trade_details' = NO_TRADE)
             /\ (decision = Sell /\ BTC_BALANCE = Zero)
                => (pc' = "Report" /\ trade_details' = NO_TRADE)
       /\ (EUR_BALANCE = Zero /\ EUR_BALANCE' # Zero)
          => (pc = "Apply" /\ Executed("Sold")')
       /\ (BTC_BALANCE = Zero /\ BTC_BALANCE' # Zero)
          => (pc = "Apply" /\ Executed("Bought")')]_vars

C17_Witness ==
    /\ pc = "Report"
    /\ cycle = 1
    /\ decision = Buy
    /\ trade_details = NO_TRADE
    /\ global_last_buy_price = R(1000, 1)
    /\ current_price = R(1000, 1)
    /\ EUR_BALANCE = Zero
    /\ BTC_BALANCE = R(1476, 1000)

====
